---- MODULE Spec2Model ----
(***************************************************************************)
(* capi2argo-cluster-operator: the Reconcile handler that syncs CAPI       *)
(* kubeconfig secrets to clusters of the Argo CD REST registry.            *)
(*                                                                         *)
(* Two revisions of the controller file are kept in the repository         *)
(* (src/unnamed/part_000 with inline HTTP calls, src/unnamed/part_001 with *)
(* the sendRequest helper).  They issue the same requests and return the   *)
(* same results on every path modelled here; the line references are to    *)
(* part_001.                                                               *)
(*                                                                         *)
(* A cycle is one call of Reconcile by a worker.  It is cut at its         *)
(* blocking registry calls: everything up to and including the first       *)
(* registry call is one step, the POST or PUT that follows is a second     *)
(* step.  Cycles of different workers interleave at these boundaries.      *)
(***************************************************************************)
EXTENDS Integers, Sequences, FiniteSets, TLC

VARIABLES
    EnableGarbageCollection, \* process-wide flag, read once at start-up
    EnableNamespacedNames,   \* process-wide flag, read once at start-up
    secrets,                 \* the credential objects of the API server
    writes,                  \* how often the credential objects were changed
    registry,                \* the clusters stored by the registry, in listing order
    pc,                      \* each worker's position in Reconcile
    req,                     \* the ctrl.Request of the worker's cycle
    argoCluster,             \* the target built by the cycle
    clusterList,             \* the listing decoded by the cycle
    exists,                  \* the cycle's exists flag
    existingCluster,         \* the cycle's copy of the matched entry
    matchIdx,                \* position in the listing of the entry copied
    changed,                 \* the cycle's changed flag
    path,                    \* the branch of Reconcile the cycle took
    sent,                    \* the registry requests the cycle has issued
    result,                  \* what the cycle returned: "nil", "err", or "none"
    tlsArg,                  \* the ArgoTLS a direct call of ValidateClusterTLSConfig is given
    tlsErr,                  \* the error that call returned
    nameArg,                 \* s and namespace given to direct calls of the naming functions
    namespacedName,          \* what BuildNamespacedName returned for them
    clusterName,             \* what BuildClusterName returned for them
    returned                 \* the direct calls that have returned

vars == <<EnableGarbageCollection, EnableNamespacedNames, secrets, writes, registry,
          pc, req, argoCluster, clusterList, exists, existingCluster,
          matchIdx, changed, path, sent, result,
          tlsArg, tlsErr, nameArg, namespacedName, clusterName, returned>>

-----------------------------------------------------------------------------
(* Bounds of the model *)

\* the registry stores at most this many clusters; a POST beyond it is refused
MaxRegistry == 2

\* the credential objects are written or removed at most this many times
MaxWrites == 1

\* the workers that run Reconcile
Workers == {"w1", "w2"}

-----------------------------------------------------------------------------
(* Strings *)

HasSuffix(s, suffix) ==
    /\ Len(s) >= Len(suffix)
    /\ SubSeq(s, Len(s) - Len(suffix) + 1, Len(s)) = suffix

TrimSuffix(s, suffix) ==
    IF HasSuffix(s, suffix) THEN SubSeq(s, 1, Len(s) - Len(suffix)) ELSE s

\* url.QueryEscape, on the characters the server URLs of the model are made of
EscapeChar(c) ==
    CASE c = ":" -> "%3A"
      [] c = "/" -> "%2F"
      [] c = " " -> "+"
      [] OTHER   -> c

RECURSIVE QueryEscape(_)
QueryEscape(s) ==
    IF Len(s) = 0 THEN ""
    ELSE EscapeChar(SubSeq(s, 1, 1)) \o QueryEscape(SubSeq(s, 2, Len(s)))

-----------------------------------------------------------------------------
(* Process-wide configuration *)

ArgoEndpoint == "argocd-server.argocd.svc.cluster.local"

ArgoNamespace == "argocd"

OwnedLabel == "capi-to-argocd/owned"

SecretTypeLabel == "argocd.argoproj.io/secret-type"

SecretNameLabel == "capi-to-argocd/cluster-secret-name"

NamespaceLabel == "capi-to-argocd/cluster-namespace"

GetArgoCommonLabels == (OwnedLabel :> "true") @@ (SecretTypeLabel :> "cluster")

\* indexing a Go map: the zero value "" for a missing key
LabelValue(labels, key) == IF key \in DOMAIN labels THEN labels[key] ELSE ""

ClustersUrl == "https://" \o ArgoEndpoint \o "/api/v1/clusters"

ClusterUrl(server) ==
    "https://" \o ArgoEndpoint \o "/api/v1/clusters/" \o QueryEscape(server)

\* DeleteUrl without the query that makes the registry read the id as a name
DeleteUrlNoType(namespace) ==
    "https://" \o ArgoEndpoint \o "/api/v1/clusters/" \o namespace

DeleteUrl(namespace) ==
    "https://" \o ArgoEndpoint \o "/api/v1/clusters/" \o namespace \o "?id.type=name"

-----------------------------------------------------------------------------
(* Naming policy and TLS validation (argo_cluster.go) *)

\* BuildClusterName with the namespace put behind the name
BuildClusterNameSuffixed(s, namespace) ==
    s \o (IF EnableNamespacedNames THEN "-" \o namespace ELSE "")

BuildClusterName(s, namespace) ==
    (IF EnableNamespacedNames THEN namespace \o "-" ELSE "") \o s

BuildNamespacedName(s, namespace) ==
    [Name      |-> "cluster-" \o BuildClusterName(TrimSuffix(s, "-kubeconfig"), namespace),
     Namespace |-> ArgoNamespace]

Base64Alphabet ==
    {"A", "B", "C", "D", "E", "F", "G", "H", "I", "J", "K", "L", "M",
     "N", "O", "P", "Q", "R", "S", "T", "U", "V", "W", "X", "Y", "Z",
     "a", "b", "c", "d", "e", "f", "g", "h", "i", "j", "k", "l", "m",
     "n", "o", "p", "q", "r", "s", "t", "u", "v", "w", "x", "y", "z",
     "0", "1", "2", "3", "4", "5", "6", "7", "8", "9", "+", "/"}

CharAt(s, i) == SubSeq(s, i, i)

\* the decoder skips carriage returns and line feeds
RECURSIVE StripNewlines(_)
StripNewlines(v) ==
    IF Len(v) = 0 THEN ""
    ELSE (IF CharAt(v, 1) \in {"\n", "\r"} THEN "" ELSE CharAt(v, 1))
             \o StripNewlines(SubSeq(v, 2, Len(v)))

\* b64.StdEncoding.DecodeString(v) returns no error: after the line breaks
\* are skipped, quanta of four characters of the alphabet, the last one padded
\* with at most two "="
DecodesAsBase64(v) ==
    LET w == StripNewlines(v)
        n == Len(w)
        pad == IF n >= 2 /\ CharAt(w, n) = "=" /\ CharAt(w, n - 1) = "=" THEN 2
               ELSE IF n >= 1 /\ CharAt(w, n) = "=" THEN 1
               ELSE 0
    IN  /\ n % 4 = 0
        /\ \A i \in 1..(n - pad) : CharAt(w, i) \in Base64Alphabet

\* FirstTLSError without the test for the empty value
RECURSIVE FirstTLSErrorNoEmptyTest(_)
FirstTLSErrorNoEmptyTest(values) ==
    IF values = << >> THEN "nil"
    ELSE IF ~DecodesAsBase64(Head(values)) THEN "illegal base64 data"
    ELSE FirstTLSErrorNoEmptyTest(Tail(values))

\* the error of the first failing field, in the order CaData, CertData, KeyData
RECURSIVE FirstTLSError(_)
FirstTLSError(values) ==
    IF values = <<>> THEN "nil"
    ELSE IF Head(values) = "" THEN "missing key on ArgoTLS config"
    ELSE IF ~DecodesAsBase64(Head(values)) THEN "illegal base64 data"
    ELSE FirstTLSError(Tail(values))

ValidateClusterTLSConfig(a) == FirstTLSError(<<a.CaData, a.CertData, a.KeyData>>)

\* c: the CapiCluster (Name, Namespace, KubeConfig); s: the secret's ObjectMeta
NewArgoCluster(c, s) ==
    [NamespacedName |-> BuildNamespacedName(s.Name, s.Namespace),
     ClusterName    |-> BuildClusterName(c.KubeConfig.ClusterName, s.Namespace),
     ClusterServer  |-> c.KubeConfig.Server,
     ClusterLabels  |-> (SecretNameLabel :> (c.Name \o "-kubeconfig"))
                        @@ (NamespaceLabel :> c.Namespace),
     TLSClientConfig |-> [CaData   |-> c.KubeConfig.CaData,
                          CertData |-> c.KubeConfig.CertData,
                          KeyData  |-> c.KubeConfig.KeyData]]

-----------------------------------------------------------------------------
(* The credential objects and the requests of the model *)

CapiSecretType == "cluster.x-k8s.io/secret"

KubeConfig(name, server, ca, cert, key) ==
    [ClusterName |-> name, Server |-> server,
     CaData |-> ca, CertData |-> cert, KeyData |-> key]

\* the kubeconfig a credential object is created with
FirstKubeConfig == KubeConfig("prod", "https://s1:6443", "Y2Ex", "Y3J0", "a2V5")

\* kubeconfigs a credential object may hold: the first version, a renamed
\* cluster, a rotated certificate and key, a rotated key alone, and a moved
\* API server whose CA data is empty
KubeConfigs ==
    {FirstKubeConfig,
     KubeConfig("team-a", "https://s1:6443", "Y2Ex", "Y3J0", "a2V5"),
     KubeConfig("prod",   "https://s1:6443", "Y2Ex", "Yw==", "aw=="),
     KubeConfig("prod",   "https://s1:6443", "Y2Ex", "Y3J0", "aw=="),
     KubeConfig("prod",   "https://s2:6443", "",     "Y3J0", "a2V5")}

\* the zero value of the KubeConfig struct
ZeroKubeConfig == KubeConfig("", "", "", "", "")

\* a corev1.Secret: its type, whether data["value"] parses as a kubeconfig,
\* and the kubeconfig it parses to
CapiSecret(kubeconfig) == [Type |-> CapiSecretType, Parses |-> TRUE, Value |-> kubeconfig]

\* no secret under the key
NotFound == [Type |-> "", Parses |-> FALSE, Value |-> ZeroKubeConfig]

\* the credential object of the cluster "prod", which is created, rewritten
\* and removed
SecretKeys == {[Name |-> "prod-kubeconfig", Namespace |-> "team-a"]}

Secrets == {CapiSecret(k) : k \in KubeConfigs}

\* two objects that stay as they are: one named like a kubeconfig secret that
\* is no CAPI secret, one CAPI secret whose value is no kubeconfig
OpaqueKey == [Name |-> "db-kubeconfig", Namespace |-> "team-a"]

BrokenKey == [Name |-> "old-kubeconfig", Namespace |-> "team-a"]

FixedSecrets ==
    (OpaqueKey :> [Type |-> "Opaque", Parses |-> TRUE,
                   Value |-> KubeConfig("db", "https://s1:6443", "Y2Ex", "Y3J0", "a2V5")])
    @@ (BrokenKey :> [Type |-> CapiSecretType, Parses |-> FALSE, Value |-> ZeroKubeConfig])

\* the objects Reconcile is called for; the last has no kubeconfig name
Requests ==
    SecretKeys \cup {OpaqueKey, BrokenKey, [Name |-> "prod-config", Namespace |-> "team-a"]}

NoRequest == [Name |-> "", Namespace |-> ""]

-----------------------------------------------------------------------------
(* The CAPI side of the package: validation of the secret and extraction   *)
(* of the kubeconfig                                                       *)

ValidateCapiNaming(n) == HasSuffix(n.Name, "-kubeconfig")

ValidateCapiSecret(s) == IF s.Type = CapiSecretType THEN "nil" ELSE "err"

NewCapiCluster(name, namespace) ==
    [Name |-> name, Namespace |-> namespace, KubeConfig |-> ZeroKubeConfig]

\* capiCluster.Unmarshal: the error, and the cluster with its KubeConfig set
UnmarshalError(s) == IF s.Parses THEN "nil" ELSE "err"

Unmarshal(c, s) == [c EXCEPT !.KubeConfig = s.Value]

-----------------------------------------------------------------------------
(* ArgoCluster values and their JSON form *)

ZeroNamespacedName == [Name |-> "", Namespace |-> ""]

ZeroTLS == [CaData |-> "", CertData |-> "", KeyData |-> ""]

\* var existingCluster ArgoCluster
ZeroCluster ==
    [NamespacedName |-> ZeroNamespacedName, ClusterName |-> "", ClusterServer |-> "",
     ClusterLabels |-> << >>, TLSClientConfig |-> ZeroTLS]

\* what the registry keeps of a request body: the fields with a json tag it
\* knows (name, server, labels, config)
RegistryEntry(body) ==
    [ClusterName |-> body.ClusterName, ClusterServer |-> body.ClusterServer,
     ClusterLabels |-> body.ClusterLabels, TLSClientConfig |-> body.TLSClientConfig]

\* json.Unmarshal of one item of the listing: NamespacedName is not in the JSON
DecodeCluster(e) ==
    [NamespacedName |-> ZeroNamespacedName, ClusterName |-> e.ClusterName,
     ClusterServer |-> e.ClusterServer, ClusterLabels |-> e.ClusterLabels,
     TLSClientConfig |-> e.TLSClientConfig]

DecodeListing(items) == [i \in 1..Len(items) |-> DecodeCluster(items[i])]

-----------------------------------------------------------------------------
(* Reconcile: the match loop and the field diff *)

\* ScanStep without the test of the ownership label
ScanStepAnyOwner(acc, cluster, i, target) ==
    IF cluster.ClusterServer = target.ClusterServer
    THEN [exists |-> TRUE, existingCluster |-> cluster, idx |-> i]
    ELSE acc

\* ScanStep leaving the loop at the first match
ScanStepFirst(acc, cluster, i, target) ==
    IF /\ ~acc.exists
       /\ cluster.ClusterServer = target.ClusterServer
       /\ LabelValue(cluster.ClusterLabels, OwnedLabel) = "true"
    THEN [exists |-> TRUE, existingCluster |-> cluster, idx |-> i]
    ELSE acc

\* the body of the loop over clusterList.Clusters for one entry
ScanStep(acc, cluster, i, target) ==
    IF /\ cluster.ClusterServer = target.ClusterServer
       /\ LabelValue(cluster.ClusterLabels, OwnedLabel) = "true"
    THEN [exists |-> TRUE, existingCluster |-> cluster, idx |-> i]
    ELSE acc

\* the loop: entries 1..n of the listing scanned in order
RECURSIVE ScanListing(_, _, _)
ScanListing(clusters, n, target) ==
    IF n = 0 THEN [exists |-> FALSE, existingCluster |-> ZeroCluster, idx |-> 0]
    ELSE ScanStep(ScanListing(clusters, n - 1, target), clusters[n], n, target)

\* SyncFields with a fourth comparison, of the key data
SyncFieldsWithKey(existing, target) ==
    LET a == [existing EXCEPT !.ClusterName = target.ClusterName,
                              !.TLSClientConfig = target.TLSClientConfig]
    IN  [existingCluster |-> a, changed |-> a # existing]

\* SyncFields with the certificate comparison setting changed only
SyncFieldsCertKept(existing, target) ==
    LET a == [existing EXCEPT !.ClusterName = target.ClusterName,
                              !.TLSClientConfig.CaData = target.TLSClientConfig.CaData]
    IN  [existingCluster |-> a,
         changed |-> \/ a # existing
                     \/ existing.TLSClientConfig.CertData # target.TLSClientConfig.CertData]

\* SyncFields putting the built target in the place of the existing entry
SyncFieldsTarget(existing, target) ==
    [existingCluster |-> target,
     changed |-> \/ existing.ClusterName # target.ClusterName
                 \/ existing.TLSClientConfig.CaData # target.TLSClientConfig.CaData
                 \/ existing.TLSClientConfig.CertData # target.TLSClientConfig.CertData]

\* case true: the three comparisons, each overwriting the field that differs
SyncFields(existing, target) ==
    LET a == IF existing.ClusterName # target.ClusterName
             THEN [existing EXCEPT !.ClusterName = target.ClusterName]
             ELSE existing
        b == IF a.TLSClientConfig.CaData # target.TLSClientConfig.CaData
             THEN [a EXCEPT !.TLSClientConfig.CaData = target.TLSClientConfig.CaData]
             ELSE a
        c == IF b.TLSClientConfig.CertData # target.TLSClientConfig.CertData
             THEN [b EXCEPT !.TLSClientConfig.CertData = target.TLSClientConfig.CertData]
             ELSE b
    IN  [existingCluster |-> c,
         changed |-> \/ existing.ClusterName # target.ClusterName
                     \/ a.TLSClientConfig.CaData # target.TLSClientConfig.CaData
                     \/ b.TLSClientConfig.CertData # target.TLSClientConfig.CertData]

\* argoCluster after the common labels were merged in
BuildTarget(r, secret) ==
    LET nn == TrimSuffix(r.Name, "-kubeconfig")
        capiCluster == Unmarshal(NewCapiCluster(nn, r.Namespace), secret)
        built == NewArgoCluster(capiCluster, r)
    IN  [built EXCEPT !.ClusterLabels = GetArgoCommonLabels @@ built.ClusterLabels]

\* one request as recorded by the model: what was sent and how it ended
\* ("transport": client.Do failed; "status": answered with a non-200 status;
\* "garbage": answered with a body that is no JSON object; "ok": answered 200)
Request(method, url, body, outcome) ==
    [method |-> method, url |-> url, body |-> body, outcome |-> outcome]

\* data = nil
NoBody == [none |-> TRUE]

-----------------------------------------------------------------------------
(* The registry *)

\* positions of the stored clusters a PUT to url addresses
AddressedByServer(url) ==
    {i \in 1..Len(registry) : ClusterUrl(registry[i].ClusterServer) = url}

\* positions of the stored clusters a DELETE to url addresses
AddressedByName(url) ==
    {i \in 1..Len(registry) : DeleteUrl(registry[i].ClusterName) = url}

RemoveAt(seq, i) == SubSeq(seq, 1, i - 1) \o SubSeq(seq, i + 1, Len(seq))

-----------------------------------------------------------------------------
(* Initial state *)

\* clusters the registry may hold that this operator did not create
ForeignClusters ==
    {[ClusterName |-> "team-a", ClusterServer |-> "https://s1:6443",
      ClusterLabels |-> << >>,
      TLSClientConfig |-> [CaData |-> "Zm9v", CertData |-> "Zm9v", KeyData |-> ""]],
     [ClusterName |-> "legacy", ClusterServer |-> "https://s1:6443",
      ClusterLabels |-> (OwnedLabel :> "false"),
      TLSClientConfig |-> [CaData |-> "Zm9v", CertData |-> "Zm9v", KeyData |-> ""]]}

Init ==
    /\ EnableGarbageCollection \in BOOLEAN
    /\ EnableNamespacedNames = FALSE
    /\ secrets \in [SecretKeys -> {CapiSecret(FirstKubeConfig), NotFound}]
    /\ writes = 0
    /\ registry \in {<< >>} \cup {<<c>> : c \in ForeignClusters}
    /\ pc = [p \in Workers |-> "idle"]
    /\ req = [p \in Workers |-> NoRequest]
    /\ argoCluster = [p \in Workers |-> ZeroCluster]
    /\ clusterList = [p \in Workers |-> << >>]
    /\ exists = [p \in Workers |-> FALSE]
    /\ existingCluster = [p \in Workers |-> ZeroCluster]
    /\ matchIdx = [p \in Workers |-> 0]
    /\ changed = [p \in Workers |-> FALSE]
    /\ path = [p \in Workers |-> "none"]
    /\ sent = [p \in Workers |-> << >>]
    /\ result = [p \in Workers |-> "none"]
    /\ tlsArg = ZeroTLS
    /\ tlsErr = "none"
    /\ nameArg = [s |-> "", namespace |-> ""]
    /\ namespacedName = ZeroNamespacedName
    /\ clusterName = ""
    /\ returned = {}

config == <<EnableGarbageCollection, EnableNamespacedNames>>

\* the direct calls of the package's functions, which Reconcile does not touch
calls == <<tlsArg, tlsErr, nameArg, namespacedName, clusterName, returned>>

locals == <<argoCluster, clusterList, exists, existingCluster, matchIdx, changed>>

\* The return of Reconcile touches the worker's own variables only, so it
\* commutes with every step of the others: a finished cycle returns before
\* anything else happens.
NoReturnPending == \A q \in Workers : pc[q] # "done"

-----------------------------------------------------------------------------
(* The API server: credential objects are written and removed *)

WriteSecret(k, s) ==
    /\ NoReturnPending
    /\ writes < MaxWrites
    /\ secrets[k] # s
    /\ secrets' = [secrets EXCEPT ![k] = s]
    /\ writes' = writes + 1
    /\ UNCHANGED <<config, calls, registry, pc, req, locals, path, sent, result>>

DeleteSecret(k) ==
    /\ NoReturnPending
    /\ writes < MaxWrites
    /\ secrets[k] # NotFound
    /\ secrets' = [secrets EXCEPT ![k] = NotFound]
    /\ writes' = writes + 1
    /\ UNCHANGED <<config, calls, registry, pc, req, locals, path, sent, result>>

\* what r.Get reads under the key
Stored(r) ==
    IF r \in SecretKeys THEN secrets[r]
    ELSE IF r \in DOMAIN FixedSecrets THEN FixedSecrets[r]
    ELSE NotFound

\* r.Get answers not-found
Absent(r) == Stored(r) = NotFound

-----------------------------------------------------------------------------
(* Reconcile, up to its first registry call *)

\* the worker is free to take a request
Ready(p) == NoReturnPending /\ pc[p] = "idle"

\* the cycle ends in the step that started it
EndAtOnce(p, r, branch, requests, res) ==
    /\ pc' = [pc EXCEPT ![p] = "done"]
    /\ req' = [req EXCEPT ![p] = r]
    /\ path' = [path EXCEPT ![p] = branch]
    /\ sent' = [sent EXCEPT ![p] = requests]
    /\ result' = [result EXCEPT ![p] = res]
    /\ UNCHANGED <<config, calls, secrets, writes, locals>>

\* the name is not <clusterName>-kubeconfig
ReconcileSkip(p, r) ==
    /\ Ready(p)
    /\ ~ValidateCapiNaming(r)
    /\ EndAtOnce(p, r, "naming", << >>, "nil")
    /\ UNCHANGED registry

\* ReconcileGetError with r.Get moved before the naming gate
ReconcileGetErrorBeforeGate(p, r) ==
    /\ Ready(p)
    /\ EndAtOnce(p, r, "fetch", << >>, "err")
    /\ UNCHANGED registry

\* r.Get fails with an error other than not-found
ReconcileGetError(p, r) ==
    /\ Ready(p)
    /\ ValidateCapiNaming(r)
    /\ EndAtOnce(p, r, "fetch", << >>, "err")
    /\ UNCHANGED registry

\* ReconcileNotFound returning err in place of client.IgnoreNotFound(err)
ReconcileNotFoundErr(p, r) ==
    /\ Ready(p)
    /\ ValidateCapiNaming(r)
    /\ Absent(r)
    /\ ~EnableGarbageCollection
    /\ EndAtOnce(p, r, "notfound", << >>, "err")
    /\ UNCHANGED registry

\* the secret is gone and garbage collection is off
ReconcileNotFound(p, r) ==
    /\ Ready(p)
    /\ ValidateCapiNaming(r)
    /\ Absent(r)
    /\ ~EnableGarbageCollection
    /\ EndAtOnce(p, r, "notfound", << >>, "nil")
    /\ UNCHANGED registry

\* the secret is gone and garbage collection is on: one DELETE
ReconcileGarbageCollect(p, r, outcome) ==
    /\ Ready(p)
    /\ ValidateCapiNaming(r)
    /\ Absent(r)
    /\ EnableGarbageCollection
    /\ LET apiurl == DeleteUrl(r.Namespace)
       IN  /\ \/ /\ outcome \in {"transport", "status"}
                 /\ UNCHANGED registry
              \/ /\ outcome = "ok"
                 /\ \E i \in AddressedByName(apiurl) : registry' = RemoveAt(registry, i)
           /\ EndAtOnce(p, r, "delete", <<Request("DELETE", apiurl, NoBody, outcome)>>,
                        IF outcome = "transport" THEN "err" ELSE "nil")

\* ReconcileShapeError returning nil for the secret it ignores
ReconcileShapeIgnored(p, r) ==
    /\ Ready(p)
    /\ ValidateCapiNaming(r)
    /\ ~Absent(r)
    /\ ValidateCapiSecret(Stored(r)) # "nil"
    /\ EndAtOnce(p, r, "shape", << >>, "nil")
    /\ UNCHANGED registry

\* the secret has not the CAPI type
ReconcileShapeError(p, r) ==
    /\ Ready(p)
    /\ ValidateCapiNaming(r)
    /\ ~Absent(r)
    /\ ValidateCapiSecret(Stored(r)) # "nil"
    /\ EndAtOnce(p, r, "shape", << >>, "err")
    /\ UNCHANGED registry

\* the kubeconfig of the secret does not parse
ReconcileUnmarshalError(p, r) ==
    /\ Ready(p)
    /\ ValidateCapiNaming(r)
    /\ ~Absent(r)
    /\ ValidateCapiSecret(Stored(r)) = "nil"
    /\ UnmarshalError(Stored(r)) # "nil"
    /\ EndAtOnce(p, r, "extract", << >>, "err")
    /\ UNCHANGED registry

\* the next position after the switch on exists was entered
Decide(found, differs) ==
    IF ~found THEN "create" ELSE IF differs THEN "update" ELSE "done"

\* the secret passed the gates: build the target, GET the listing, decode it,
\* scan it and compare the matched entry
ReconcileList(p, r, outcome) ==
    /\ Ready(p)
    /\ ValidateCapiNaming(r)
    /\ ~Absent(r)
    /\ ValidateCapiSecret(Stored(r)) = "nil"
    /\ UnmarshalError(Stored(r)) = "nil"
    /\ outcome \in {"transport", "garbage", "status", "ok"}
    /\ LET target == BuildTarget(r, Stored(r))
           get == Request("GET", ClustersUrl, NoBody, outcome)
           \* the error object of a non-200 answer decodes as a ClusterList
           \* without items
           listing == IF outcome = "ok" THEN DecodeListing(registry) ELSE << >>
           scan == ScanListing(listing, Len(listing), target)
           sync == SyncFields(scan.existingCluster, target)
       IN  /\ req' = [req EXCEPT ![p] = r]
           /\ argoCluster' = [argoCluster EXCEPT ![p] = target]
           /\ sent' = [sent EXCEPT ![p] = <<get>>]
           /\ IF outcome \in {"transport", "garbage"}
              THEN \* json.Unmarshal fails on the missing or malformed body
                   /\ pc' = [pc EXCEPT ![p] = "done"]
                   /\ path' = [path EXCEPT ![p] = "list"]
                   /\ result' = [result EXCEPT ![p] = "err"]
                   /\ UNCHANGED <<clusterList, exists, existingCluster, matchIdx, changed>>
              ELSE /\ clusterList' = [clusterList EXCEPT ![p] = listing]
                   /\ exists' = [exists EXCEPT ![p] = scan.exists]
                   /\ matchIdx' = [matchIdx EXCEPT ![p] = scan.idx]
                   /\ existingCluster' = [existingCluster EXCEPT ![p] =
                          IF scan.exists THEN sync.existingCluster ELSE scan.existingCluster]
                   /\ changed' = [changed EXCEPT ![p] = scan.exists /\ sync.changed]
                   /\ pc' = [pc EXCEPT ![p] = Decide(scan.exists, sync.changed)]
                   /\ path' = [path EXCEPT ![p] = "match"]
                   /\ result' = [result EXCEPT ![p] =
                          IF Decide(scan.exists, sync.changed) = "done" THEN "nil" ELSE "none"]
    /\ UNCHANGED <<config, calls, secrets, writes, registry>>

-----------------------------------------------------------------------------
(* Reconcile, the mutating call *)

\* Create with a retry inside the cycle when the POST fails in transport
CreateRetry(p, outcome) ==
    /\ NoReturnPending
    /\ pc[p] = "create"
    /\ Len(sent[p]) < 3
    /\ \/ /\ outcome \in {"transport", "status"}
          /\ UNCHANGED registry
       \/ /\ outcome = "ok"
          /\ Len(registry) < MaxRegistry
          /\ registry' = Append(registry, RegistryEntry(argoCluster[p]))
    /\ sent' = [sent EXCEPT ![p] =
                   Append(@, Request("POST", ClustersUrl, argoCluster[p], outcome))]
    /\ result' = [result EXCEPT ![p] = IF outcome = "transport" THEN "none" ELSE "nil"]
    /\ pc' = [pc EXCEPT ![p] = IF outcome = "transport" THEN "create" ELSE "done"]
    /\ UNCHANGED <<config, calls, secrets, writes, req, locals, path>>

\* case false: POST the target to the collection
Create(p, outcome) ==
    /\ NoReturnPending
    /\ pc[p] = "create"
    /\ \/ /\ outcome \in {"transport", "status"}
          /\ UNCHANGED registry
       \/ /\ outcome = "ok"
          /\ Len(registry) < MaxRegistry
          /\ registry' = Append(registry, RegistryEntry(argoCluster[p]))
    /\ sent' = [sent EXCEPT ![p] =
                   Append(@, Request("POST", ClustersUrl, argoCluster[p], outcome))]
    /\ result' = [result EXCEPT ![p] = IF outcome = "transport" THEN "err" ELSE "nil"]
    /\ pc' = [pc EXCEPT ![p] = "done"]
    /\ UNCHANGED <<config, calls, secrets, writes, req, locals, path>>

\* Update returning an error for a PUT answered with a non-200 status
UpdateStatusFatal(p, outcome) ==
    /\ NoReturnPending
    /\ pc[p] = "update"
    /\ LET apiurl == ClusterUrl(existingCluster[p].ClusterServer)
       IN  /\ \/ /\ outcome \in {"transport", "status"}
                 /\ UNCHANGED registry
              \/ /\ outcome = "ok"
                 /\ \E i \in AddressedByServer(apiurl) :
                        registry' = [registry EXCEPT ![i] = RegistryEntry(existingCluster[p])]
           /\ sent' = [sent EXCEPT ![p] =
                          Append(@, Request("PUT", apiurl, existingCluster[p], outcome))]
    /\ result' = [result EXCEPT ![p] = IF outcome = "ok" THEN "nil" ELSE "err"]
    /\ pc' = [pc EXCEPT ![p] = "done"]
    /\ UNCHANGED <<config, calls, secrets, writes, req, locals, path>>

\* case true, changed: PUT the synced copy to the entry's server
Update(p, outcome) ==
    /\ NoReturnPending
    /\ pc[p] = "update"
    /\ LET apiurl == ClusterUrl(existingCluster[p].ClusterServer)
       IN  /\ \/ /\ outcome \in {"transport", "status"}
                 /\ UNCHANGED registry
              \/ /\ outcome = "ok"
                 /\ \E i \in AddressedByServer(apiurl) :
                        registry' = [registry EXCEPT ![i] = RegistryEntry(existingCluster[p])]
           /\ sent' = [sent EXCEPT ![p] =
                          Append(@, Request("PUT", apiurl, existingCluster[p], outcome))]
    /\ result' = [result EXCEPT ![p] = IF outcome = "transport" THEN "err" ELSE "nil"]
    /\ pc' = [pc EXCEPT ![p] = "done"]
    /\ UNCHANGED <<config, calls, secrets, writes, req, locals, path>>

\* Reconcile has returned; the worker is free for the next request
Return(p) ==
    /\ pc[p] = "done"
    /\ pc' = [pc EXCEPT ![p] = "idle"]
    /\ req' = [req EXCEPT ![p] = NoRequest]
    /\ argoCluster' = [argoCluster EXCEPT ![p] = ZeroCluster]
    /\ clusterList' = [clusterList EXCEPT ![p] = << >>]
    /\ exists' = [exists EXCEPT ![p] = FALSE]
    /\ existingCluster' = [existingCluster EXCEPT ![p] = ZeroCluster]
    /\ matchIdx' = [matchIdx EXCEPT ![p] = 0]
    /\ changed' = [changed EXCEPT ![p] = FALSE]
    /\ path' = [path EXCEPT ![p] = "none"]
    /\ sent' = [sent EXCEPT ![p] = << >>]
    /\ result' = [result EXCEPT ![p] = "none"]
    /\ UNCHANGED <<config, calls, secrets, writes, registry>>

-----------------------------------------------------------------------------

Next ==
    \/ \E k \in SecretKeys, s \in Secrets : WriteSecret(k, s)
    \/ \E k \in SecretKeys : DeleteSecret(k)
    \/ \E p \in Workers, r \in Requests : ReconcileSkip(p, r)
    \/ \E p \in Workers, r \in Requests : ReconcileGetError(p, r)
    \/ \E p \in Workers, r \in Requests : ReconcileNotFound(p, r)
    \/ \E p \in Workers, r \in Requests, o \in {"transport", "status", "ok"} :
           ReconcileGarbageCollect(p, r, o)
    \/ \E p \in Workers, r \in Requests : ReconcileShapeError(p, r)
    \/ \E p \in Workers, r \in Requests : ReconcileUnmarshalError(p, r)
    \/ \E p \in Workers, r \in Requests, o \in {"transport", "garbage", "status", "ok"} :
           ReconcileList(p, r, o)
    \/ \E p \in Workers, o \in {"transport", "status", "ok"} : Create(p, o)
    \/ \E p \in Workers, o \in {"transport", "status", "ok"} : Update(p, o)
    \/ \E p \in Workers : Return(p)

Spec == Init /\ [][Next]_vars

-----------------------------------------------------------------------------
(* Direct calls of the functions of argo_cluster.go, as its tests make them *)

\* values of a field of ArgoTLS: empty, the encoding of "test", a string with
\* a character outside the alphabet, a string cut short of its padding, and
\* an encoding with a line feed after it
TLSValues == {"", "dGVzdA==", "non-valid", "dGVzdA=", "dGVz\n"}

TLSConfigs ==
    {[CaData |-> ca, CertData |-> cert, KeyData |-> key] :
        ca \in TLSValues, cert \in TLSValues, key \in TLSValues}

\* secret names: with the suffix, without it, with the suffix twice, the
\* suffix alone, and with the suffix inside
SecretNames ==
    {"test-XXX-kubeconfig", "capi-XXX", "a-kubeconfig-kubeconfig", "-kubeconfig",
     "a-kubeconfig-b"}

Namespaces == {"test-ns", "team-a"}

InitCalls ==
    /\ EnableGarbageCollection = FALSE
    /\ EnableNamespacedNames \in BOOLEAN
    /\ secrets = [k \in SecretKeys |-> NotFound]
    /\ writes = 0
    /\ registry = << >>
    /\ pc = [p \in Workers |-> "idle"]
    /\ req = [p \in Workers |-> NoRequest]
    /\ argoCluster = [p \in Workers |-> ZeroCluster]
    /\ clusterList = [p \in Workers |-> << >>]
    /\ exists = [p \in Workers |-> FALSE]
    /\ existingCluster = [p \in Workers |-> ZeroCluster]
    /\ matchIdx = [p \in Workers |-> 0]
    /\ changed = [p \in Workers |-> FALSE]
    /\ path = [p \in Workers |-> "none"]
    /\ sent = [p \in Workers |-> << >>]
    /\ result = [p \in Workers |-> "none"]
    /\ tlsArg \in TLSConfigs
    /\ tlsErr = "none"
    /\ nameArg \in [s : SecretNames, namespace : Namespaces]
    /\ namespacedName = ZeroNamespacedName
    /\ clusterName = ""
    /\ returned = {}

\* what no direct call changes
reconciler == <<config, secrets, writes, registry, pc, req, locals, path, sent, result>>

CallValidateClusterTLSConfig ==
    /\ "ValidateClusterTLSConfig" \notin returned
    /\ tlsErr' = ValidateClusterTLSConfig(tlsArg)
    /\ returned' = returned \cup {"ValidateClusterTLSConfig"}
    /\ UNCHANGED <<reconciler, tlsArg, nameArg, namespacedName, clusterName>>

CallBuildNamespacedName ==
    /\ "BuildNamespacedName" \notin returned
    /\ namespacedName' = BuildNamespacedName(nameArg.s, nameArg.namespace)
    /\ returned' = returned \cup {"BuildNamespacedName"}
    /\ UNCHANGED <<reconciler, tlsArg, tlsErr, nameArg, clusterName>>

CallBuildClusterName ==
    /\ "BuildClusterName" \notin returned
    /\ clusterName' = BuildClusterName(nameArg.s, nameArg.namespace)
    /\ returned' = returned \cup {"BuildClusterName"}
    /\ UNCHANGED <<reconciler, tlsArg, tlsErr, nameArg, namespacedName>>

NextCalls ==
    \/ CallValidateClusterTLSConfig
    \/ CallBuildNamespacedName
    \/ CallBuildClusterName

SpecCalls == InitCalls /\ [][NextCalls]_vars

-----------------------------------------------------------------------------
(* Vocabulary of the properties *)

Owned(cluster) ==
    /\ OwnedLabel \in DOMAIN cluster.ClusterLabels
    /\ cluster.ClusterLabels[OwnedLabel] = "true"

\* positions of the listing that hold an owned entry with the target's server
OwnedMatches(p) ==
    {i \in 1..Len(clusterList[p]) :
        /\ clusterList[p][i].ClusterServer = argoCluster[p].ClusterServer
        /\ Owned(clusterList[p][i])}

\* the entry differs from the target in name, CA data or certificate data
Differs(cluster, target) ==
    \/ cluster.ClusterName # target.ClusterName
    \/ cluster.TLSClientConfig.CaData # target.TLSClientConfig.CaData
    \/ cluster.TLSClientConfig.CertData # target.TLSClientConfig.CertData

Methods(p) == [i \in 1..Len(sent[p]) |-> sent[p][i].method]

Mutating == {"POST", "PUT", "DELETE"}

MutatingSent(p) == {i \in 1..Len(sent[p]) : sent[p][i].method \in Mutating}

\* the cycle of p has ended and had decoded a listing
EndedAfterMatch(p) == pc[p] = "done" /\ path[p] = "match"

-----------------------------------------------------------------------------
(* C1: a cycle that reaches the match step with a listing that holds no     *)
(* owned entry with the target's server URL (entries with that URL whose    *)
(* ownership label is missing or not "true" included) issues exactly one    *)
(* POST of the built target to the collection endpoint, and no PUT and no   *)
(* DELETE.                                                                  *)

C1_UnmatchedCreates ==
    \A p \in Workers :
        (path[p] = "match" /\ OwnedMatches(p) = {}) =>
            /\ pc[p] \in {"create", "done"}
            /\ pc[p] = "create" => Methods(p) = <<"GET">>
            /\ pc[p] = "done" =>
                  /\ Methods(p) = <<"GET", "POST">>
                  /\ sent[p][2].url = ClustersUrl
                  /\ sent[p][2].body = argoCluster[p]

\* an unowned entry with the target's server URL was listed, and the POST went out
C1_Witness ==
    \E p \in Workers :
        /\ EndedAfterMatch(p)
        /\ OwnedMatches(p) = {}
        /\ \E i \in 1..Len(clusterList[p]) :
              clusterList[p][i].ClusterServer = argoCluster[p].ClusterServer
        /\ Methods(p) = <<"GET", "POST">>

(* C2: when the listing holds owned entries with the target's server URL:   *)
(* if they differ from the target in name, CA data or certificate data the  *)
(* cycle issues exactly one PUT and no POST or DELETE; if none of the three *)
(* fields differ, whatever the key data, it issues nothing after the list   *)
(* call.                                                                    *)

C2_MatchedUpdatesOrNothing ==
    \A p \in Workers :
        (EndedAfterMatch(p) /\ OwnedMatches(p) # {}) =>
            /\ (\A i \in OwnedMatches(p) : Differs(clusterList[p][i], argoCluster[p]))
                  => Methods(p) = <<"GET", "PUT">>
            /\ (\A i \in OwnedMatches(p) : ~Differs(clusterList[p][i], argoCluster[p]))
                  => Methods(p) = <<"GET">>

\* the matched entry differs from the target in its key data alone: no request
C2_Witness ==
    \E p \in Workers :
        /\ EndedAfterMatch(p)
        /\ OwnedMatches(p) # {}
        /\ \A i \in OwnedMatches(p) :
              /\ ~Differs(clusterList[p][i], argoCluster[p])
              /\ clusterList[p][i].TLSClientConfig.KeyData
                    # argoCluster[p].TLSClientConfig.KeyData
        /\ Methods(p) = <<"GET">>

\* the matched entry differs in one of the three fields: one PUT
C2_WitnessPut ==
    \E p \in Workers :
        /\ EndedAfterMatch(p)
        /\ OwnedMatches(p) # {}
        /\ \A i \in OwnedMatches(p) : Differs(clusterList[p][i], argoCluster[p])
        /\ Methods(p) = <<"GET", "PUT">>

(* C6: every cycle issues at most one mutating registry request (POST, PUT  *)
(* or DELETE), on every path, error paths included.                         *)

C6_AtMostOneMutation ==
    \A p \in Workers : Cardinality(MutatingSent(p)) <= 1

\* a cycle that ended with an error after its one mutating request
C6_Witness ==
    \E p \in Workers :
        /\ pc[p] = "done"
        /\ result[p] = "err"
        /\ Cardinality(MutatingSent(p)) = 1

(* C3: no cycle, the garbage-collecting ones included, issues a PUT or a    *)
(* DELETE that modifies or removes a registry entry without the ownership   *)
(* label "capi-to-argocd/owned" = "true": the entries without the marker    *)
(* are the same after every step.                                           *)

Unowned(cluster) == ~Owned(cluster)

C3_UnownedUntouched ==
    [][SelectSeq(registry', Unowned) = SelectSeq(registry, Unowned)]_vars

(* C4: with the registry storing each accepted POST as an entry, every      *)
(* reachable state has at most one owned registry entry per server URL,     *)
(* whatever the interleaving of the cycles.                                 *)

C4_OneOwnedPerServer ==
    \A i, j \in 1..Len(registry) :
        (/\ Owned(registry[i]) /\ Owned(registry[j])
         /\ registry[i].ClusterServer = registry[j].ClusterServer) => i = j

(* C5: a TLS configuration taken from the source cluster value that is      *)
(* invalid (CA, certificate or key data empty or not standard base64) is    *)
(* never in the body of a POST or PUT.                                      *)

C5_InvalidTLSNeverSent ==
    \A p \in Workers : \A i \in 1..Len(sent[p]) :
        (/\ sent[p][i].method \in {"POST", "PUT"}
         /\ sent[p][i].body.TLSClientConfig = argoCluster[p].TLSClientConfig)
            => ValidateClusterTLSConfig(sent[p][i].body.TLSClientConfig) = "nil"

(* C7: with garbage collection on, once the credential object is removed    *)
(* and a cycle for it took the not-found path with its DELETE answered      *)
(* successfully, the registry holds no owned entry that was created for     *)
(* that credential object.                                                  *)

\* the owned entry carries the provenance labels of the credential object r
CreatedFor(cluster, r) ==
    /\ Owned(cluster)
    /\ LabelValue(cluster.ClusterLabels, SecretNameLabel) = r.Name
    /\ LabelValue(cluster.ClusterLabels, NamespaceLabel) = r.Namespace

C7_NoOrphanAfterDelete ==
    \A p \in Workers :
        (/\ pc[p] = "done"
         /\ path[p] = "delete"
         /\ sent[p][1].outcome = "ok")
            => \A i \in 1..Len(registry) : ~CreatedFor(registry[i], req[p])

(* C8: after a cycle for a credential object has ended without error and    *)
(* the registry applied its request, a further cycle for the same unchanged *)
(* credential object against the unchanged registry issues no POST, PUT or  *)
(* DELETE.                                                                  *)

\* every request of the cycle was answered 200, and a PUT was applied to the
\* entry the cycle had matched: the registry holds the PUT body in its place
AllApplied(p) ==
    /\ \A i \in 1..Len(sent[p]) : sent[p][i].outcome = "ok"
    /\ changed[p] =>
          /\ matchIdx[p] <= Len(registry)
          /\ registry[matchIdx[p]] = RegistryEntry(existingCluster[p])

\* the credential object is as the cycle of p read it
SecretUnchanged(p) ==
    /\ ~Absent(req[p])
    /\ ValidateCapiSecret(Stored(req[p])) = "nil"
    /\ UnmarshalError(Stored(req[p])) = "nil"
    /\ BuildTarget(req[p], Stored(req[p])) = argoCluster[p]

\* where a further cycle for the request of p goes after its list call was
\* answered with the registry as it is now
FurtherCycle(p) ==
    LET target == BuildTarget(req[p], Stored(req[p]))
        listing == DecodeListing(registry)
        scan == ScanListing(listing, Len(listing), target)
        sync == SyncFields(scan.existingCluster, target)
    IN  Decide(scan.exists, sync.changed)

C8_Idempotent ==
    \A p \in Workers :
        (/\ EndedAfterMatch(p)
         /\ result[p] = "nil"
         /\ AllApplied(p)
         /\ SecretUnchanged(p))
            => FurtherCycle(p) = "done"

(* C9: after a cycle that found an owned entry with the target's server URL *)
(* and ended without error, the registry having applied any PUT, that       *)
(* registry entry equals the built target in name, server URL, CA data and  *)
(* certificate data.  (As first stated, also in labels and key data:        *)
(* C9_SourceWinsEveryField.)                                                *)

\* the cycle found an owned entry, ended without error, and what it sent was applied
SyncedCycle(p) ==
    /\ EndedAfterMatch(p)
    /\ exists[p]
    /\ result[p] = "nil"
    /\ AllApplied(p)

C9_SourceWinsEveryField ==
    \A p \in Workers :
        SyncedCycle(p) =>
            LET entry == registry[matchIdx[p]]
            IN  /\ entry.ClusterName = argoCluster[p].ClusterName
                /\ entry.ClusterServer = argoCluster[p].ClusterServer
                /\ entry.ClusterLabels = argoCluster[p].ClusterLabels
                /\ entry.TLSClientConfig = argoCluster[p].TLSClientConfig

C9_SourceWinsDiffedFields ==
    \A p \in Workers :
        SyncedCycle(p) =>
            LET entry == registry[matchIdx[p]]
            IN  /\ entry.ClusterName = argoCluster[p].ClusterName
                /\ entry.ClusterServer = argoCluster[p].ClusterServer
                /\ entry.TLSClientConfig.CaData = argoCluster[p].TLSClientConfig.CaData
                /\ entry.TLSClientConfig.CertData = argoCluster[p].TLSClientConfig.CertData

\* a PUT was applied to an entry whose certificate and key data both differed
\* from the source's: the certificate is the source's now, the key is not
C9_Witness ==
    \E p \in Workers :
        /\ SyncedCycle(p)
        /\ Methods(p) = <<"GET", "PUT">>
        /\ clusterList[p][matchIdx[p]].TLSClientConfig.CertData
              # argoCluster[p].TLSClientConfig.CertData
        /\ registry[matchIdx[p]].TLSClientConfig.CertData
              = argoCluster[p].TLSClientConfig.CertData
        /\ registry[matchIdx[p]].TLSClientConfig.KeyData
              # argoCluster[p].TLSClientConfig.KeyData

(* C10: when several owned entries of the listing have the target's server  *)
(* URL, the entry treated as the existing one (compared in the diff and     *)
(* written by the PUT) is the last such entry in listing order.  (As first  *)
(* stated, the first such entry: C10_FirstMatchIsExisting.)                 *)

Least(S) == CHOOSE i \in S : \A j \in S : i <= j

Greatest(S) == CHOOSE i \in S : \A j \in S : i >= j

\* entry k of the listing is the one the cycle compares and writes back
TreatedAsExisting(p, k) ==
    /\ changed[p] = Differs(clusterList[p][k], argoCluster[p])
    /\ existingCluster[p] =
          [clusterList[p][k] EXCEPT
              !.ClusterName = argoCluster[p].ClusterName,
              !.TLSClientConfig.CaData = argoCluster[p].TLSClientConfig.CaData,
              !.TLSClientConfig.CertData = argoCluster[p].TLSClientConfig.CertData]
    /\ \A i \in 1..Len(sent[p]) :
          sent[p][i].method = "PUT" => sent[p][i].body = existingCluster[p]

C11_FailedCreateSurfaced ==
    \A p \in Workers :
        (EndedAfterMatch(p) /\ Methods(p) = <<"GET", "POST">>) =>
            (result[p] = "nil" <=> sent[p][2].outcome = "ok")

(* C12: a cycle that finds the credential object absent while garbage       *)
(* collection is off issues no registry request and ends without error.     *)

\* the cycle of p has ended and its r.Get answered not-found: nothing is
\* stored under the name, and the cycle neither stopped at the naming gate,
\* nor failed to fetch, nor went on to the list call (which it does for a
\* stored object)
ReadNotFound(p) ==
    /\ pc[p] = "done"
    /\ Absent(req[p])
    /\ path[p] \notin {"naming", "fetch", "list", "match"}

C12_NotFoundWithoutGCIsSilent ==
    \A p \in Workers :
        (ReadNotFound(p) /\ ~EnableGarbageCollection) =>
            /\ sent[p] = << >>
            /\ result[p] = "nil"

\* the credential object of the cluster is gone, garbage collection is off,
\* and an owned entry is still in the registry
C12_Witness ==
    \E p \in Workers :
        /\ ReadNotFound(p)
        /\ ~EnableGarbageCollection
        /\ req[p] \in SecretKeys
        /\ \E i \in 1..Len(registry) : Owned(registry[i])

(* C13: a cycle that finds the credential object absent while garbage       *)
(* collection is on issues exactly one request, a DELETE addressed to       *)
(* /api/v1/clusters/<namespace of the object>?id.type=name, and ends.       *)

C13_NotFoundWithGCDeletesOnce ==
    \A p \in Workers :
        (ReadNotFound(p) /\ EnableGarbageCollection) =>
            /\ Methods(p) = <<"DELETE">>
            /\ sent[p][1].url =
                  "https://" \o ArgoEndpoint \o "/api/v1/clusters/"
                      \o req[p].Namespace \o "?id.type=name"

C13_Witness ==
    \E p \in Workers :
        /\ ReadNotFound(p)
        /\ EnableGarbageCollection
        /\ req[p] \in SecretKeys
        /\ Methods(p) = <<"DELETE">>

(* C14: a DELETE or PUT answered with a non-200 status ends the cycle       *)
(* without error, a DELETE or PUT that fails in transport ends it with an   *)
(* error, and in both cases it is the last request of the cycle.            *)

C14_StatusIgnoredTransportFatal ==
    \A p \in Workers : \A i \in 1..Len(sent[p]) :
        sent[p][i].method \in {"DELETE", "PUT"} =>
            /\ i = Len(sent[p])
            /\ pc[p] = "done"
            /\ sent[p][i].outcome = "status" => result[p] = "nil"
            /\ sent[p][i].outcome = "transport" => result[p] = "err"

\* a PUT was answered with a non-200 status and the cycle returned no error
C14_Witness ==
    \E p \in Workers :
        /\ pc[p] = "done"
        /\ Methods(p) = <<"GET", "PUT">>
        /\ sent[p][2].outcome = "status"
        /\ result[p] = "nil"

\* a DELETE failed in transport and the cycle returned the error
C14_WitnessDelete ==
    \E p \in Workers :
        /\ pc[p] = "done"
        /\ Methods(p) = <<"DELETE">>
        /\ sent[p][1].outcome = "transport"
        /\ result[p] = "err"

(* C15: a cycle for an object whose name is not <clusterName>-kubeconfig    *)
(* ends at the naming gate: no error, no registry request, and nothing of   *)
(* what a fetch would bring (neither its error nor, with garbage collection *)
(* on, the DELETE of the not-found branch).                                 *)

C15_NamingGateEndsSilently ==
    \A p \in Workers :
        (pc[p] # "idle" /\ ~ValidateCapiNaming(req[p])) =>
            /\ pc[p] = "done"
            /\ path[p] = "naming"
            /\ sent[p] = << >>
            /\ result[p] = "nil"

\* garbage collection is on and nothing is stored under the name: a fetch
\* would have led to a DELETE
C15_Witness ==
    \E p \in Workers :
        /\ pc[p] = "done"
        /\ ~ValidateCapiNaming(req[p])
        /\ EnableGarbageCollection
        /\ Absent(req[p])

(* C16: a cycle stopped by a failure of r.Get other than not-found, by a    *)
(* secret that has not the CAPI type, or by a kubeconfig that does not      *)
(* parse ends with an error and has issued no registry request; a cycle     *)
(* that issued the list call was stopped by none of them.                   *)

\* what is stored under the request of p fails the shape check or the extraction
FailsGates(p) ==
    /\ ValidateCapiNaming(req[p])
    /\ ~Absent(req[p])
    /\ \/ ValidateCapiSecret(Stored(req[p])) # "nil"
       \/ UnmarshalError(Stored(req[p])) # "nil"

C16_GateFailuresSurfaceUnsent ==
    \A p \in Workers :
        /\ (pc[p] # "idle" /\ (path[p] = "fetch" \/ FailsGates(p))) =>
              /\ pc[p] = "done"
              /\ result[p] = "err"
              /\ sent[p] = << >>
        /\ sent[p] # << >> => path[p] \notin {"fetch", "shape", "extract"}

\* a cycle for the secret of another type ended with an error
C16_Witness ==
    \E p \in Workers :
        /\ pc[p] = "done"
        /\ FailsGates(p)
        /\ ValidateCapiSecret(Stored(req[p])) # "nil"
        /\ result[p] = "err"

\* a cycle for the secret whose kubeconfig does not parse ended with an error
C16_WitnessExtract ==
    \E p \in Workers :
        /\ pc[p] = "done"
        /\ FailsGates(p)
        /\ ValidateCapiSecret(Stored(req[p])) = "nil"
        /\ result[p] = "err"

(* C17: ValidateClusterTLSConfig returns no error exactly when CA data,      *)
(* certificate data and key data are all non-empty and decode as standard   *)
(* base64; otherwise it returns the error of the first failing field in the *)
(* order CA, certificate, key: the missing-field error when that field is   *)
(* empty, the encoding error when it is not empty and does not decode.      *)

FieldFails(v) == v = "" \/ ~DecodesAsBase64(v)

FieldError(v) == IF v = "" THEN "missing key on ArgoTLS config" ELSE "illegal base64 data"

C17_ValidateTLS ==
    "ValidateClusterTLSConfig" \in returned =>
        /\ tlsErr = "nil" <=>
              /\ ~FieldFails(tlsArg.CaData)
              /\ ~FieldFails(tlsArg.CertData)
              /\ ~FieldFails(tlsArg.KeyData)
        /\ FieldFails(tlsArg.CaData) => tlsErr = FieldError(tlsArg.CaData)
        /\ (~FieldFails(tlsArg.CaData) /\ FieldFails(tlsArg.CertData))
              => tlsErr = FieldError(tlsArg.CertData)
        /\ (/\ ~FieldFails(tlsArg.CaData) /\ ~FieldFails(tlsArg.CertData)
            /\ FieldFails(tlsArg.KeyData))
              => tlsErr = FieldError(tlsArg.KeyData)

\* the CA data is valid, the certificate data is empty, the key data does
\* not decode: the error is the certificate's
C17_Witness ==
    /\ "ValidateClusterTLSConfig" \in returned
    /\ tlsArg.CaData = "dGVzdA=="
    /\ tlsArg.CertData = ""
    /\ tlsArg.KeyData = "non-valid"
    /\ tlsErr = "missing key on ArgoTLS config"

(* C18: BuildNamespacedName(s, ns) returns the name "cluster-" + q + t and   *)
(* the configured registry namespace, t being s without its one trailing    *)
(* "-kubeconfig" (s itself when it does not end so) and q being ns + "-"    *)
(* with namespace qualification on and empty with it off;                   *)
(* BuildClusterName(n, ns) returns n with the flag off and ns + "-" + n     *)
(* with it on.                                                              *)

\* s less its last Len("-kubeconfig") characters when these are the suffix
Stem(s) ==
    LET k == Len(s) - Len("-kubeconfig")
    IN  IF k >= 0 /\ SubSeq(s, 1, k) \o "-kubeconfig" = s THEN SubSeq(s, 1, k) ELSE s

Qualifier(ns) == IF EnableNamespacedNames THEN ns \o "-" ELSE ""

C18_NamingPolicy ==
    /\ "BuildNamespacedName" \in returned =>
          /\ namespacedName.Name =
                "cluster-" \o Qualifier(nameArg.namespace) \o Stem(nameArg.s)
          /\ namespacedName.Namespace = ArgoNamespace
    /\ "BuildClusterName" \in returned =>
          clusterName = Qualifier(nameArg.namespace) \o nameArg.s

\* the name ends with the suffix twice and namespace qualification is on
C18_Witness ==
    /\ returned = {"BuildNamespacedName", "BuildClusterName"}
    /\ EnableNamespacedNames
    /\ nameArg.s = "a-kubeconfig-kubeconfig"
    /\ namespacedName.Name = "cluster-" \o nameArg.namespace \o "-a-kubeconfig"

(* C19: the body of a PUT is the matched entry of the listing with name, CA  *)
(* data and certificate data as the built target has them (the fields that  *)
(* differed replaced, the others alike already); its server URL, labels and *)
(* key data are the matched entry's, and the PUT is addressed to the        *)
(* matched entry's server URL, escaped, under /api/v1/clusters/.            *)

C19_PutKeepsTheRest ==
    \A p \in Workers : \A i \in 1..Len(sent[p]) :
        sent[p][i].method = "PUT" =>
            LET entry == clusterList[p][Greatest(OwnedMatches(p))]
                body == sent[p][i].body
                target == argoCluster[p]
            IN  /\ body.ClusterName = target.ClusterName
                /\ body.TLSClientConfig.CaData = target.TLSClientConfig.CaData
                /\ body.TLSClientConfig.CertData = target.TLSClientConfig.CertData
                /\ body.TLSClientConfig.KeyData = entry.TLSClientConfig.KeyData
                /\ body.ClusterServer = entry.ClusterServer
                /\ body.ClusterLabels = entry.ClusterLabels
                /\ body.NamespacedName = entry.NamespacedName
                /\ sent[p][i].url =
                      "https://" \o ArgoEndpoint \o "/api/v1/clusters/"
                          \o QueryEscape(entry.ClusterServer)
                /\ entry.ClusterServer = "https://s1:6443" =>
                      sent[p][i].url =
                          "https://" \o ArgoEndpoint
                              \o "/api/v1/clusters/https%3A%2F%2Fs1%3A6443"

\* a PUT for an entry that had the target's name and CA data, another
\* certificate and another key: the body has the target's certificate and
\* the entry's key
C19_Witness ==
    \E p \in Workers :
        /\ pc[p] = "done"
        /\ Methods(p) = <<"GET", "PUT">>
        /\ LET entry == clusterList[p][Greatest(OwnedMatches(p))]
           IN  /\ entry.ClusterName = argoCluster[p].ClusterName
               /\ entry.TLSClientConfig.CertData # argoCluster[p].TLSClientConfig.CertData
               /\ entry.TLSClientConfig.KeyData # argoCluster[p].TLSClientConfig.KeyData
               /\ sent[p][2].body.TLSClientConfig.KeyData = entry.TLSClientConfig.KeyData

(* C20: after a cycle for a credential object has ended without error, its  *)
(* requests applied, the registry does not hold two owned entries with the  *)
(* provenance labels of that object under different server URLs: the entry  *)
(* stored under an old server URL does not remain beside a new one.         *)

C20_NoEntryLeftUnderOldServer ==
    \A p \in Workers :
        (EndedAfterMatch(p) /\ result[p] = "nil" /\ AllApplied(p)) =>
            \A i, j \in 1..Len(registry) :
                (CreatedFor(registry[i], req[p]) /\ CreatedFor(registry[j], req[p]))
                    => registry[i].ClusterServer = registry[j].ClusterServer

(* C21: a cycle issues a POST or a PUT only after its list call was         *)
(* answered with a successful listing; a cycle whose list call failed in    *)
(* transport, was answered with a non-success status, or returned a body    *)
(* that is no listing ends with an error and has issued nothing else.       *)

C21_MutatesOnlyAfterListing ==
    \A p \in Workers :
        (Len(sent[p]) >= 1 /\ sent[p][1].method = "GET" /\ sent[p][1].outcome # "ok") =>
            /\ pc[p] = "done"
            /\ result[p] = "err"
            /\ Methods(p) = <<"GET">>

-----------------------------------------------------------------------------
(* Re-delivery: the cycles of one worker for one credential object that     *)
(* exists and stays as it is.  The invoking layer calls Reconcile for the   *)
(* first event and again after every cycle that returned an error, and      *)
(* only then: a cycle that returned nil is the last one.                    *)

Subject == "w1"

Object == [Name |-> "prod-kubeconfig", Namespace |-> "team-a"]

\* the registry at the first event: empty, holding a cluster of someone else,
\* or holding the owned entry made for some version of the object
InitRedelivery ==
    /\ EnableGarbageCollection \in BOOLEAN
    /\ EnableNamespacedNames = FALSE
    /\ secrets \in [SecretKeys -> Secrets]
    /\ writes = 0
    /\ registry \in {<< >>} \cup {<<c>> : c \in ForeignClusters}
                       \cup {<<RegistryEntry(BuildTarget(Object, s))>> : s \in Secrets}
    /\ pc = [p \in Workers |-> "idle"]
    /\ req = [p \in Workers |-> NoRequest]
    /\ argoCluster = [p \in Workers |-> ZeroCluster]
    /\ clusterList = [p \in Workers |-> << >>]
    /\ exists = [p \in Workers |-> FALSE]
    /\ existingCluster = [p \in Workers |-> ZeroCluster]
    /\ matchIdx = [p \in Workers |-> 0]
    /\ changed = [p \in Workers |-> FALSE]
    /\ path = [p \in Workers |-> "none"]
    /\ sent = [p \in Workers |-> << >>]
    /\ result = [p \in Workers |-> "none"]
    /\ tlsArg = ZeroTLS
    /\ tlsErr = "none"
    /\ nameArg = [s |-> "", namespace |-> ""]
    /\ namespacedName = ZeroNamespacedName
    /\ clusterName = ""
    /\ returned = {}

\* the cycle returned an error: the event is delivered again
Redeliver(p) ==
    /\ result[p] = "err"
    /\ Return(p)

NextRedelivery ==
    \/ \E o \in {"transport", "garbage", "status", "ok"} : ReconcileList(Subject, Object, o)
    \/ \E o \in {"transport", "status", "ok"} : Create(Subject, o)
    \/ \E o \in {"transport", "status", "ok"} : Update(Subject, o)
    \/ Redeliver(Subject)

\* a delivered event is handled and a started cycle goes on; registry calls
\* fail only finitely often, so a call that is made again and again is
\* answered with success at some time
FairRedelivery ==
    /\ WF_vars(NextRedelivery)
    /\ SF_vars(ReconcileList(Subject, Object, "ok"))
    /\ SF_vars(Create(Subject, "ok"))
    /\ SF_vars(Update(Subject, "ok"))

SpecRedelivery == InitRedelivery /\ [][NextRedelivery]_vars /\ FairRedelivery

(* C22: under re-delivery after every cycle that returned an error, and     *)
(* only then, with registry calls failing only finitely often, the registry *)
(* eventually holds an owned entry with the source's server URL whose name, *)
(* CA data and certificate data are the built target's, and every cycle     *)
(* that has started comes to its end.                                       *)

\* the registry holds an owned entry in sync with the object
Converged ==
    LET target == BuildTarget(Object, secrets[Object])
    IN  \E i \in 1..Len(registry) :
            /\ Owned(registry[i])
            /\ registry[i].ClusterServer = target.ClusterServer
            /\ ~Differs(registry[i], target)

C22_ConvergesUnderRedelivery ==
    /\ <>Converged
    /\ (pc[Subject] \in {"create", "update"}) ~> (pc[Subject] = "done")

====
